---- MODULE Spec2Model ----
(***************************************************************************)
(* ISAR target classification: the training-and-evaluation pipeline of     *)
(* main.py, the classical classifiers of ml_models.py and the CNN epoch     *)
(* loop with early stopping of cnn_model.py.                                *)
(*                                                                         *)
(* Abstractions.  An image (a flattened 64x64 feature vector) is named by  *)
(* an integer; the images of a dataset are distinct, and -x names an       *)
(* augmented copy of image x.  The weights of the CNN are named by the     *)
(* number of training epochs that produced them; the validation loss of    *)
(* weights w is the val_loss recorded at the end of epoch w (validation is *)
(* deterministic: no augmentation, no dropout at inference).  Losses are   *)
(* integers; NaN is not modelled.  Library calls (Keras fit and            *)
(* EarlyStopping, sklearn fit / predict / train_test_split /               *)
(* classification_report, Counter.most_common) behave as the libraries the *)
(* imports name do (Keras 2.x: ImageDataGenerator exists only there).  A   *)
(* fitted K-Means model is any assignment of images to the n_clusters      *)
(* cluster ids; the cluster of an image outside the training set is fixed  *)
(* when it is first predicted.  At the dataset sizes modelled a fitted     *)
(* tree is a single leaf (min_samples_split = 10) that predicts the        *)
(* majority class; the SVM and the forest are given the same predictions.  *)
(***************************************************************************)
EXTENDS Integers, Sequences, FiniteSets, TLC

VARIABLES
    pc,             \* position of the program
    entry,          \* the function that was called: "main", one train function,
                    \* train_cnn or compute_metrics
    exc,            \* the exception that propagated out, <<>> when none
    args,           \* the arguments of the called function; for main the
                    \* parsed command line (main.py 36-52)
    X_train, y_train, X_test, y_test,   \* the split dataset (main.py 61-64)
    n_classes,      \* len(class_names) (main.py 66)
    models,         \* the dict built by train_all_models, in insertion order
    eval_i,         \* number of entries of models.items() already evaluated
    results,        \* main's results dict, in insertion order
    X_train_cnn, X_test_cnn,            \* reshaped copies (cnn_model.py 56-57)
    weights,        \* the live CNN model's weights
    epoch,          \* number of completed epochs of model.fit
    history,        \* history.history: four parallel per-epoch lists
    es,             \* the EarlyStopping callback's fields
    stop_training,  \* model.stop_training
    val_trend, val_free_from, val_free_len   \* how the validation loss evolves (the data decide it)

ctlVars == <<entry, args>>
dataVars == <<X_train, y_train, X_test, y_test>>
mlVars == <<models, eval_i, results>>
cnnVars == <<X_train_cnn, X_test_cnn, weights, epoch, history, es, stop_training>>
envVars == <<val_trend, val_free_from, val_free_len>>
vars == <<pc, exc, ctlVars, dataVars, n_classes, mlVars, cnnVars, envVars>>

----------------------------------------------------------------------------
(* Bounds and program constants *)

CNN_EPOCHS == 50
CNN_EARLY_STOPPING_PATIENCE == 5

\* Largest number of images in the data folder.
MaxImages == 6
\* Largest number of rows handed to a train function called on its own.
MaxRows == 3
\* Number of consecutive epochs whose validation loss is unconstrained.
MaxFree == 6
\* Largest length of a label sequence handed to compute_metrics called on its own.
MaxLabels == 3

StartLoss == 2 * CNN_EPOCHS
Inf == StartLoss + 1
FreeStarts == {1, CNN_EPOCHS - 4 - MaxFree}
FreeLengths == {MaxFree}
Trends == {"improving", "flat"}
NoException == <<>>
NoMapping == <<>>

----------------------------------------------------------------------------
(* Helpers on sequences *)

Range(s) == {s[i] : i \in DOMAIN s}

\* the least element of a non-empty sequence of numbers
MinSeq(s) == CHOOSE m \in Range(s) : \A x \in Range(s) : m <= x

Prefix(s, n) == SubSeq(s, 1, n)

Count(s, k) == Cardinality({i \in DOMAIN s : s[i] = k})

\* y[mask]: the elements of y at the rows where mask holds, in row order
RECURSIVE Masked(_, _)
Masked(y, mask) ==
    IF Len(y) = 0 THEN <<>>
    ELSE LET rest == Masked(Prefix(y, Len(y) - 1), Prefix(mask, Len(y) - 1))
         IN  IF mask[Len(y)] THEN Append(rest, y[Len(y)]) ELSE rest

----------------------------------------------------------------------------
(* data_loader.py *)

RECURSIVE SumOver(_, _)
SumOver(f, S) ==
    IF S = {} THEN 0
    ELSE LET a == CHOOSE x \in S : TRUE IN f[a] + SumOver(f, S \ {a})

\* sklearn's _approximate_mode: n draws spread over the classes in proportion
\* to counts; the draws left after rounding down go to the classes with the
\* largest remainders, ties broken at random.
ApproximateModes(counts, n) ==
    LET C == DOMAIN counts
        total == SumOver(counts, C)
        floored == [k \in C |-> (n * counts[k]) \div total]
        rem == [k \in C |-> (n * counts[k]) % total]
        need == n - SumOver(floored, C)
    IN  {[k \in C |-> floored[k] + (IF k \in S THEN 1 ELSE 0)] :
            S \in {T \in SUBSET C :
                     /\ Cardinality(T) = need
                     /\ \A k \in T : \A j \in C \ T : rem[k] >= rem[j]}}

\* train_test_split(test_size=0.2, stratify=y): the splits of n images with
\* the class counts given; every row order occurs (the split shuffles).
StratifiedSplits(counts, n) ==
    LET C == DOMAIN counts
        n_test == (n + 4) \div 5
        n_train == n - n_test
    IN  {sp \in [train : [1..n_train -> C], test : [1..n_test -> C]] :
            \E tr \in ApproximateModes(counts, n_train) :
            \E te \in ApproximateModes([k \in C |-> counts[k] - tr[k]], n_test) :
                \A k \in C : Count(sp.train, k) = tr[k] /\ Count(sp.test, k) = te[k]}

\* the class counts of n images of K classes that train_test_split accepts:
\* at least two images per class, at least K rows in each part
ClassCounts(n, K) ==
    {c \in [0..(K - 1) -> 2..n] :
        /\ SumOver(c, 0..(K - 1)) = n
        /\ (n + 4) \div 5 >= K
        /\ n - (n + 4) \div 5 >= K}

----------------------------------------------------------------------------
(* ml_models.py *)

Raised(at, type) == [at |-> at, type |-> type]

\* where control goes when a step ends normally: main goes on to its next
\* step, a train function called on its own returns to its caller
After(next) == IF entry = "main" THEN next ELSE "returned"

\* sklearn's input validation in fit(X, y): no rows, or X and y of unequal length
FitRejects(X, y) == Len(X) = 0 \/ Len(X) # Len(y)

\* SVC.fit also needs two classes among the labels
SvcFitRaises(X, y) == FitRejects(X, y) \/ Cardinality(Range(y)) < 2

\* the most frequent label of y, the lowest one among equals (argmax of counts)
MajorityLowest(y) ==
    CHOOSE k \in Range(y) :
        \A j \in Range(y) : Count(y, k) > Count(y, j) \/ (Count(y, k) = Count(y, j) /\ k <= j)

\* a fitted SVC / DecisionTreeClassifier / RandomForestClassifier
Fitted(kind, X, y) == [kind |-> kind, classes_ |-> Range(y), majority |-> MajorityLowest(y)]

\* model.predict(X) of a fitted supervised classifier: one label per row
SupervisedPredict(model, X) == [i \in 1..Len(X) |-> model.majority]

\* one entry of the dict train_all_models builds
Entry(name, model, mapping) == [name |-> name, model |-> model, mapping |-> mapping]

\* train_svm, and models["SVM"] = ... in train_all_models
TrainSvmIsolated ==
    /\ pc = "svm"
    /\ IF SvcFitRaises(X_train, y_train)
       THEN models' = models
       ELSE models' = Append(models, Entry("SVM", Fitted("SVC", X_train, y_train), NoMapping))
    /\ exc' = IF SvcFitRaises(X_train, y_train) THEN Raised("svm", "ValueError") ELSE exc
    /\ pc' = After("dt")
    /\ UNCHANGED <<ctlVars, dataVars, n_classes, eval_i, results, cnnVars, envVars>>

TrainSvm ==
    /\ pc = "svm"
    /\ IF SvcFitRaises(X_train, y_train)
       THEN /\ exc' = Raised("svm", "ValueError")
            /\ pc' = "raised"
            /\ UNCHANGED models
       ELSE /\ models' = Append(models, Entry("SVM", Fitted("SVC", X_train, y_train), NoMapping))
            /\ pc' = After("dt")
            /\ UNCHANGED exc
    /\ UNCHANGED <<ctlVars, dataVars, n_classes, eval_i, results, cnnVars, envVars>>

\* train_decision_tree, and models["Decision Tree"] = ...
TrainDecisionTree ==
    /\ pc = "dt"
    /\ IF FitRejects(X_train, y_train)
       THEN /\ exc' = Raised("dt", "ValueError")
            /\ pc' = "raised"
            /\ UNCHANGED models
       ELSE /\ models' = Append(models,
                   Entry("Decision Tree", Fitted("DecisionTreeClassifier", X_train, y_train), NoMapping))
            /\ pc' = After("rf")
            /\ UNCHANGED exc
    /\ UNCHANGED <<ctlVars, dataVars, n_classes, eval_i, results, cnnVars, envVars>>

\* train_random_forest, and models["Random Forest"] = ...
TrainRandomForest ==
    /\ pc = "rf"
    /\ IF FitRejects(X_train, y_train)
       THEN /\ exc' = Raised("rf", "ValueError")
            /\ pc' = "raised"
            /\ UNCHANGED models
       ELSE /\ models' = Append(models,
                   Entry("Random Forest", Fitted("RandomForestClassifier", X_train, y_train), NoMapping))
            /\ pc' = After("kmeans")
            /\ UNCHANGED exc
    /\ UNCHANGED <<ctlVars, dataVars, n_classes, eval_i, results, cnnVars, envVars>>

\* Counter(labels): the distinct labels in order of first occurrence, with counts
RECURSIVE CounterItems(_)
CounterItems(labels) ==
    IF Len(labels) = 0 THEN <<>>
    ELSE LET before == CounterItems(Prefix(labels, Len(labels) - 1))
             k == labels[Len(labels)]
         IN  IF \E i \in DOMAIN before : before[i][1] = k
             THEN [i \in DOMAIN before |->
                     IF before[i][1] = k THEN <<k, before[i][2] + 1>> ELSE before[i]]
             ELSE Append(before, <<k, 1>>)

\* Counter(labels).most_common(1)[0][0]: heapq.nlargest(1, items, key=count) is
\* max(items, key=count), the first item in iteration order with the top count
MostCommonLowestId(labels) == MajorityLowest(labels)

MostCommon(labels) ==
    LET items == CounterItems(labels)
        top == CHOOSE i \in DOMAIN items :
                  /\ \A j \in DOMAIN items : items[j][2] <= items[i][2]
                  /\ \A j \in 1..(i - 1) : items[j][2] < items[i][2]
    IN  items[top][1]

\* KMeans(n_clusters=n).fit(X): no rows, or fewer rows than clusters
KMeansFitNeverRaises(X, n) == FALSE

KMeansFitRaises(X, n) == Len(X) = 0 \/ n < 1 \/ Len(X) < n

\* the fitted K-Means models: every assignment of the training images to clusters
KMeansFits(X, n) == {[kind |-> "KMeans", n_clusters |-> n, assign |-> a] : a \in [Range(X) -> 0..(n - 1)]}

\* model.predict(X): the cluster sequences the model can give for X
KMeansPredict(model, X) ==
    {c \in [1..Len(X) -> 0..(model.n_clusters - 1)] :
        \A i \in 1..Len(X) : X[i] \in DOMAIN model.assign => c[i] = model.assign[X[i]]}

\* train_kmeans lines 77-82: for cid in np.unique(cluster_labels) ...
ClusterToLabelAllClusters(cluster_labels, y, n) ==
    [cid \in 0..(n - 1) |->
        IF cid \in Range(cluster_labels)
        THEN MostCommon(Masked(y, [i \in DOMAIN cluster_labels |-> cluster_labels[i] = cid]))
        ELSE 0]

ClusterToLabel(cluster_labels, y, n) ==
    [cid \in Range(cluster_labels) |->
        MostCommon(Masked(y, [i \in DOMAIN cluster_labels |-> cluster_labels[i] = cid]))]

\* train_kmeans, and models["K-Means"] = ...; y_train[mask] needs a mask as
\* long as y_train
TrainKMeans ==
    /\ pc = "kmeans"
    /\ IF KMeansFitRaises(X_train, n_classes)
       THEN /\ exc' = Raised("kmeans", "ValueError")
            /\ pc' = "raised"
            /\ UNCHANGED models
       ELSE IF Len(X_train) # Len(y_train)
       THEN /\ exc' = Raised("kmeans", "IndexError")
            /\ pc' = "raised"
            /\ UNCHANGED models
       ELSE /\ \E km \in KMeansFits(X_train, n_classes) :
               LET cluster_labels == [i \in 1..Len(X_train) |-> km.assign[X_train[i]]]
               IN  models' = Append(models,
                       Entry("K-Means", km, ClusterToLabel(cluster_labels, y_train, n_classes)))
            /\ pc' = After("eval")
            /\ UNCHANGED exc
    /\ UNCHANGED <<ctlVars, dataVars, n_classes, eval_i, results, cnnVars, envVars>>

\* cluster_to_label.get(c, -1)
LookupDefaultZero(mapping, c) == IF c \in DOMAIN mapping THEN mapping[c] ELSE 0

Lookup(mapping, c) == IF c \in DOMAIN mapping THEN mapping[c] ELSE -1

\* predict_kmeans line 90: the labels for the clusters model.predict gave
LabelsOfClusters(mapping, clusters) == [i \in DOMAIN clusters |-> Lookup(mapping, clusters[i])]

\* predict_kmeans: the label sequences it can return for X
PredictKMeans(model, mapping, X) ==
    {LabelsOfClusters(mapping, c) : c \in KMeansPredict(model, X)}

\* run_grid_search: GridSearchCV(cv=3) cannot split when every class has fewer
\* than three rows, and every SVC fit fails when there is one class
GridSearchRaises(X, y) ==
    \/ FitRejects(X, y)
    \/ Cardinality(Range(y)) < 2
    \/ \A k \in Range(y) : Count(y, k) < 3

----------------------------------------------------------------------------
(* evaluation.py *)

\* A metric value is an exact fraction <<numerator, denominator>>, not reduced;
\* <<0, 0>> is the 0/0 numpy evaluates to NaN.
AddFrac(a, b) == <<a[1] * b[2] + b[1] * a[2], a[2] * b[2]>>

\* the sum of the fractions f[k] for k in S
RECURSIVE SumFrac(_, _)
SumFrac(f, S) ==
    IF S = {} THEN <<0, 1>>
    ELSE LET a == CHOOSE x \in S : TRUE IN AddFrac(f[a], SumFrac(f, S \ {a}))

\* zero_division=1: an undefined ratio counts as 1
ZeroDivisionOne(n, d) == IF d = 0 THEN <<1, 1>> ELSE <<n, d>>

\* zero_division=0: the ratio n/d, and 0 where it is undefined
ZeroDivision(n, d) == IF d = 0 THEN <<0, 1>> ELSE <<n, d>>

\* sklearn's check_consistent_length in every metric
MetricsRaise(y_true, y_pred) == Len(y_true) # Len(y_pred)

\* unique_labels(y_true, y_pred)
UniqueLabels(y_true, y_pred) == Range(y_true) \cup Range(y_pred)

\* the rows of class k predicted as k
TruePositives(y_true, y_pred, k) ==
    Cardinality({i \in DOMAIN y_true : y_true[i] = k /\ y_pred[i] = k})

\* accuracy_score: np.average of (y_true == y_pred); 0/0 when there are no rows
AccuracyScore(y_true, y_pred) ==
    <<Cardinality({i \in DOMAIN y_true : y_true[i] = y_pred[i]}), Len(y_true)>>

\* per-class precision, recall and F1 of precision_recall_fscore_support
ClassPrecision(y_true, y_pred, k) ==
    ZeroDivision(TruePositives(y_true, y_pred, k), Count(y_pred, k))
ClassRecall(y_true, y_pred, k) ==
    ZeroDivision(TruePositives(y_true, y_pred, k), Count(y_true, k))
ClassF1(y_true, y_pred, k) ==
    ZeroDivision(2 * TruePositives(y_true, y_pred, k), Count(y_pred, k) + Count(y_true, k))

\* average="weighted": the per-class values weighted by support (the number of
\* true rows of the class); the zero_division value 0 when the weights sum to 0
WeightedAverage(score, y_true, y_pred) ==
    LET labels == UniqueLabels(y_true, y_pred)
        terms == [k \in labels |-> <<Count(y_true, k) * score[k][1], score[k][2]>>]
        total == SumFrac(terms, labels)
    IN  IF Len(y_true) = 0 THEN <<0, 1>>
        ELSE <<total[1], total[2] * Len(y_true)>>

\* compute_metrics
ComputeMetrics(y_true, y_pred) ==
    LET labels == UniqueLabels(y_true, y_pred) IN
    [accuracy |-> AccuracyScore(y_true, y_pred),
     precision |-> WeightedAverage([k \in labels |-> ClassPrecision(y_true, y_pred, k)], y_true, y_pred),
     recall |-> WeightedAverage([k \in labels |-> ClassRecall(y_true, y_pred, k)], y_true, y_pred),
     f1 |-> WeightedAverage([k \in labels |-> ClassF1(y_true, y_pred, k)], y_true, y_pred)]

\* compute_metrics called on its own with two label sequences
CallComputeMetrics ==
    /\ pc = "compute_metrics"
    /\ IF MetricsRaise(args.y_true, args.y_pred)
       THEN /\ exc' = Raised("compute_metrics", "ValueError")
            /\ pc' = "raised"
            /\ UNCHANGED results
       ELSE /\ results' = Append(results,
                   [name |-> entry, metrics |-> ComputeMetrics(args.y_true, args.y_pred)])
            /\ pc' = "returned"
            /\ UNCHANGED exc
    /\ UNCHANGED <<ctlVars, dataVars, n_classes, models, eval_i, cnnVars, envVars>>

\* print_report line 38: classification_report(..., target_names=class_names)
\* raises ValueError unless the labels in y_true and y_pred are as many as the names
ReportRaises(y_true, y_pred, names) ==
    Cardinality(Range(y_true) \cup Range(y_pred)) # names

----------------------------------------------------------------------------
(* cnn_model.py *)

\* _reshape_for_cnn: X.astype("float32") copies, reshape changes only the shape.
ReshapeForCnn(X) == X

\* ImageDataGenerator.flow: a batch is a fresh array holding a random transform
\* of every training row; the rows themselves are only read.
Augment(x) == 0 - x
Augmentations(X) ==
    {[i \in 1..Len(X) |-> IF i \in S THEN Augment(X[i]) ELSE X[i]] : S \in SUBSET (1..Len(X))}

EmptyHistory == [loss |-> <<>>, accuracy |-> <<>>, val_loss |-> <<>>, val_accuracy |-> <<>>]

\* EarlyStopping.on_train_begin
EarlyStoppingInit ==
    [wait |-> 0, stopped_epoch |-> 0, best |-> Inf, best_weights |-> <<>>, best_epoch |-> 0]

\* The validation losses epoch ep (0-based) can produce, vl being those recorded
\* so far: the first epoch gives StartLoss; later the loss is one below the
\* lowest so far up to epoch val_free_from, then for val_free_len epochs one below,
\* at, or one above it, and from then on as val_trend says.
ValLossChoices(ep, vl) ==
    IF ep = 0 THEN {StartLoss}
    ELSE LET b == MinSeq(vl) IN
         IF ep < val_free_from THEN {b - 1}
         ELSE IF ep < val_free_from + val_free_len THEN {b - 1, b, b + 1}
         ELSE IF val_trend = "improving" THEN {b - 1}
         ELSE {b}

\* The logs of one epoch: training metrics and validation metrics.
EpochLogs(w, v) ==
    [loss |-> StartLoss - w, accuracy |-> w, val_loss |-> v, val_accuracy |-> StartLoss - v]

\* History.on_epoch_end: every key of logs is appended to its list.
RecordEpochDropDiscarded(h, logs) ==
    IF Len(h.val_loss) > 0 /\ logs.val_loss >= MinSeq(h.val_loss) THEN h
    ELSE [k \in DOMAIN h |-> Append(h[k], logs[k])]

RecordEpoch(h, logs) == [k \in DOMAIN h |-> Append(h[k], logs[k])]

\* EarlyStopping._is_improvement: np.less(current - min_delta, best), min_delta = 0
IsImprovementOrEqual(current, best) == current <= best

IsImprovement(current, best) == current < best

\* patience reached (EarlyStopping.on_epoch_end: wait >= patience and epoch > 0)
PatienceReached(wait, ep) == wait >= CNN_EARLY_STOPPING_PATIENCE /\ ep > 0

\* restore_best_weights=True: model.set_weights(best_weights) when stopping
RestoreKeepLast(s, w) == w

RestoreBestWeights(s, w) == IF s.best_weights # <<>> THEN s.best_weights[1] ELSE w

\* EarlyStopping.on_epoch_end(epoch, logs); ep is the 0-based epoch index and w
\* the weights the model holds at the end of the epoch.
OnEpochEnd(s, ep, logs, w) ==
    LET current == logs.val_loss
        s1 == IF s.best_weights = <<>>
              THEN [s EXCEPT !.best_weights = <<w>>, !.best_epoch = ep]
              ELSE s
        s2 == [s1 EXCEPT !.wait = @ + 1]
    IN  IF IsImprovement(current, s2.best)
        THEN [es |-> [s2 EXCEPT !.best = current, !.best_epoch = ep,
                                !.best_weights = <<w>>, !.wait = 0],
              stop |-> FALSE, weights |-> w]
        ELSE IF PatienceReached(s2.wait, ep)
             THEN [es |-> [s2 EXCEPT !.stopped_epoch = ep],
                   stop |-> TRUE, weights |-> RestoreBestWeights(s2, w)]
             ELSE [es |-> s2, stop |-> FALSE, weights |-> w]

\* train_cnn lines 56-73: reshape, build_cnn, datagen, EarlyStopping
CnnBuild ==
    /\ pc = "cnn_build"
    /\ X_train_cnn' = ReshapeForCnn(X_train)
    /\ X_test_cnn' = ReshapeForCnn(X_test)
    /\ weights' = 0
    /\ epoch' = 0
    /\ history' = EmptyHistory
    /\ es' = EarlyStoppingInit
    /\ stop_training' = FALSE
    /\ pc' = "cnn_fit"
    /\ UNCHANGED <<exc, ctlVars, dataVars, n_classes, mlVars, envVars>>

\* the loop of model.fit: epochs=CNN_EPOCHS, left early when stop_training
FitLoopUnbounded == ~stop_training

FitLoopContinues == epoch < CNN_EPOCHS /\ ~stop_training

\* one epoch of model.fit: train on the augmented batches, validate, callbacks
CnnEpochInPlace ==
    /\ pc = "cnn_fit"
    /\ FitLoopContinues
    /\ \E aug \in Augmentations(X_train_cnn) :
       \E v \in ValLossChoices(epoch, history.val_loss) :
          LET w == epoch + 1
              logs == EpochLogs(w, v)
              r == OnEpochEnd(es, epoch, logs, w)
          IN  /\ history' = RecordEpoch(history, logs)
              /\ es' = r.es
              /\ stop_training' = r.stop
              /\ weights' = r.weights
              /\ epoch' = epoch + 1
              /\ X_train' = aug
    /\ UNCHANGED <<pc, exc, ctlVars, y_train, X_test, y_test, n_classes, mlVars, envVars,
                   X_train_cnn, X_test_cnn>>

CnnEpoch ==
    /\ pc = "cnn_fit"
    /\ FitLoopContinues
    /\ \E aug \in Augmentations(X_train_cnn) :
       \E v \in ValLossChoices(epoch, history.val_loss) :
          LET w == epoch + 1
              logs == EpochLogs(w, v)
              r == OnEpochEnd(es, epoch, logs, w)
          IN  /\ history' = RecordEpoch(history, logs)
              /\ es' = r.es
              /\ stop_training' = r.stop
              /\ weights' = r.weights
              /\ epoch' = epoch + 1
    /\ UNCHANGED <<pc, exc, ctlVars, dataVars, n_classes, mlVars, envVars,
                   X_train_cnn, X_test_cnn>>

\* train_cnn line 83: return model, history
CnnReturn ==
    /\ pc = "cnn_fit"
    /\ ~FitLoopContinues
    /\ pc' = "cnn_returned"
    /\ UNCHANGED <<exc, ctlVars, dataVars, n_classes, mlVars, cnnVars, envVars>>

\* predict_cnn: np.argmax over the num_classes outputs, one label per row
PredictCnn(w, X, num_classes) == [1..Len(X) -> 0..(num_classes - 1)]

----------------------------------------------------------------------------
(* main.py *)

NoData == <<>>

\* main lines 59-66: prepare_data gives the stratified split of a folder of
\* n images of K classes
PrepareData ==
    /\ pc = "start"
    /\ \E n \in 2..MaxImages : \E K \in 1..(n \div 2) : \E counts \in ClassCounts(n, K) :
       \E sp \in StratifiedSplits(counts, n) :
          /\ X_train' = [i \in 1..Len(sp.train) |-> i]
          /\ y_train' = sp.train
          /\ X_test' = [i \in 1..Len(sp.test) |-> Len(sp.train) + i]
          /\ y_test' = sp.test
          /\ n_classes' = K
    /\ pc' = "grid"
    /\ UNCHANGED <<exc, ctlVars, mlVars, cnnVars, envVars>>

\* main lines 69-73: run_grid_search when asked for; its result is dropped
GridSearch ==
    /\ pc = "grid"
    /\ IF args.grid_search /\ GridSearchRaises(X_train, y_train)
       THEN exc' = Raised("grid", "ValueError") /\ pc' = "raised"
       ELSE pc' = "svm" /\ UNCHANGED exc
    /\ UNCHANGED <<ctlVars, dataVars, n_classes, mlVars, cnnVars, envVars>>

\* y_pred = entry["predict"](X_test) of the entry evaluated next
Predictions(e, X) ==
    IF e.name = "K-Means" THEN PredictKMeans(e.model, e.mapping, X)
    ELSE {SupervisedPredict(e.model, X)}

\* main lines 80-84: one pass of the loop over models.items()
EvaluateModel ==
    /\ pc = "eval"
    /\ eval_i < Len(models)
    /\ LET e == models[eval_i + 1] IN
       \E y_pred \in Predictions(e, X_test) :
          IF ReportRaises(y_test, y_pred, n_classes)
          THEN /\ exc' = Raised("report", "ValueError")
               /\ pc' = "raised"
               /\ UNCHANGED <<eval_i, results>>
          ELSE /\ results' = Append(results,
                      [name |-> e.name, metrics |-> ComputeMetrics(y_test, y_pred)])
               /\ eval_i' = eval_i + 1
               /\ UNCHANGED <<pc, exc>>
    /\ UNCHANGED <<ctlVars, dataVars, n_classes, models, cnnVars, envVars>>

\* main lines 87-98: the loop is over; train the CNN unless --skip-cnn
AfterEvaluation ==
    /\ pc = "eval"
    /\ eval_i = Len(models)
    /\ pc' = IF args.skip_cnn THEN "summary" ELSE "cnn_build"
    /\ UNCHANGED <<exc, ctlVars, dataVars, n_classes, mlVars, cnnVars, envVars>>

\* main lines 91-96: predict_cnn, print_report, plot_training_history
EvaluateCnn ==
    /\ pc = "cnn_returned"
    /\ entry = "main"
    /\ \E y_pred \in PredictCnn(weights, X_test, n_classes) :
          IF ReportRaises(y_test, y_pred, n_classes)
          THEN /\ exc' = Raised("report", "ValueError")
               /\ pc' = "raised"
               /\ UNCHANGED results
          ELSE /\ results' = Append(results,
                      [name |-> "CNN", metrics |-> ComputeMetrics(y_test, y_pred)])
               /\ pc' = "summary"
               /\ UNCHANGED exc
    /\ UNCHANGED <<ctlVars, dataVars, n_classes, models, eval_i, cnnVars, envVars>>

\* main lines 101-108: the final comparison reads results
Summary ==
    /\ pc = "summary"
    /\ pc' = "done"
    /\ UNCHANGED <<exc, ctlVars, dataVars, n_classes, mlVars, cnnVars, envVars>>

----------------------------------------------------------------------------
(* The specifications *)

CnnIdle ==
    /\ X_train_cnn = <<>> /\ X_test_cnn = <<>>
    /\ weights = 0 /\ epoch = 0
    /\ history = EmptyHistory
    /\ es = EarlyStoppingInit
    /\ stop_training = FALSE

\* python main.py [--grid-search] [--skip-cnn]; the validation loss of the CNN
\* stops improving after the first epoch
Init ==
    /\ pc = "start" /\ entry = "main" /\ exc = NoException
    /\ args \in [grid_search : BOOLEAN, skip_cnn : BOOLEAN]
    /\ X_train = NoData /\ y_train = NoData /\ X_test = NoData /\ y_test = NoData
    /\ n_classes = 0
    /\ models = <<>> /\ eval_i = 0 /\ results = <<>>
    /\ CnnIdle
    /\ val_trend = "flat" /\ val_free_from = 1 /\ val_free_len = 0

Next ==
    \/ PrepareData \/ GridSearch
    \/ TrainSvm \/ TrainDecisionTree \/ TrainRandomForest \/ TrainKMeans
    \/ EvaluateModel \/ AfterEvaluation
    \/ CnnBuild \/ CnnEpoch \/ CnnReturn \/ EvaluateCnn
    \/ Summary

Spec == Init /\ [][Next]_vars

\* train_cnn called on a fixed two-class dataset
InitCnn ==
    /\ pc = "cnn_build" /\ entry = "train_cnn" /\ exc = NoException
    /\ args = [grid_search |-> FALSE, skip_cnn |-> FALSE]
    /\ X_train = <<1, 2>> /\ y_train = <<0, 1>>
    /\ X_test = <<3, 4>> /\ y_test = <<1, 0>>
    /\ n_classes = 2
    /\ models = <<>> /\ eval_i = 0 /\ results = <<>>
    /\ CnnIdle
    /\ val_trend \in Trends
    /\ val_free_from \in FreeStarts
    /\ val_free_len \in FreeLengths

NextCnn == CnnBuild \/ CnnEpoch \/ CnnReturn

SpecCnn == InitCnn /\ [][NextCnn]_vars

\* the training loop keeps running until fit returns
FairSpecCnn == SpecCnn /\ WF_vars(NextCnn)

\* one classical train function called on its own with any rows and labels
TrainFunctions == {"svm", "dt", "rf", "kmeans"}
AnyLabels == (0 - 1)..2

InitTrain ==
    /\ pc \in TrainFunctions /\ entry = pc /\ exc = NoException
    /\ args = [grid_search |-> FALSE, skip_cnn |-> TRUE]
    /\ \E n \in 0..MaxRows :
          /\ X_train = [i \in 1..n |-> i]
          /\ y_train \in [1..n -> AnyLabels] \cup [1..(n + 1) -> {0}]
    /\ X_test = NoData /\ y_test = NoData
    /\ n_classes \in 1..2
    /\ models = <<>> /\ eval_i = 0 /\ results = <<>>
    /\ CnnIdle
    /\ val_trend = "flat" /\ val_free_from = 1 /\ val_free_len = 0

NextTrain == TrainSvm \/ TrainDecisionTree \/ TrainRandomForest \/ TrainKMeans

SpecTrain == InitTrain /\ [][NextTrain]_vars

\* compute_metrics called on its own with any two label sequences
MetricLabels == 0..2
LabelSeqs == UNION {[1..n -> MetricLabels] : n \in 0..MaxLabels}

InitMetrics ==
    /\ pc = "compute_metrics" /\ entry = "compute_metrics" /\ exc = NoException
    /\ args \in [y_true : LabelSeqs, y_pred : LabelSeqs]
    /\ X_train = NoData /\ y_train = NoData /\ X_test = NoData /\ y_test = NoData
    /\ n_classes = 0
    /\ models = <<>> /\ eval_i = 0 /\ results = <<>>
    /\ CnnIdle
    /\ val_trend = "flat" /\ val_free_from = 1 /\ val_free_len = 0

NextMetrics == CallComputeMetrics

SpecMetrics == InitMetrics /\ [][NextMetrics]_vars

----------------------------------------------------------------------------
(* Properties of the CNN epoch loop *)

ValLoss == history.val_loss
EpochsRun == Len(ValLoss)

\* validation loss of the weights the model holds (weights w: end of epoch w)
ModelValLoss == ValLoss[weights]

\* epoch i (1-based) did not improve on the best validation loss before it
NonImproving(vl, i) == i > 1 /\ vl[i] >= MinSeq(Prefix(vl, i - 1))

\* epochs i-patience+1..i are patience consecutive non-improving epochs
RunCompleteAt(vl, i) ==
    /\ i >= CNN_EARLY_STOPPING_PATIENCE
    /\ \A j \in (i - CNN_EARLY_STOPPING_PATIENCE + 1)..i : NonImproving(vl, j)

\* length of the run of non-improving epochs that ends the list
RECURSIVE TrailingRun(_)
TrailingRun(vl) ==
    IF Len(vl) = 0 \/ ~NonImproving(vl, Len(vl)) THEN 0
    ELSE 1 + TrailingRun(Prefix(vl, Len(vl) - 1))

\* C1: when early stopping triggered, the model holds the weights of the end
\* of the epoch with the minimum recorded validation loss, so its validation
\* loss equals min(history val_loss).
C1_RestoredBestWeights ==
    stop_training =>
        /\ weights \in 1..EpochsRun
        /\ ModelValLoss = MinSeq(ValLoss)
        /\ \A i \in 1..(weights - 1) : ValLoss[i] > ValLoss[weights]

\* early stopping triggered and the best epoch is not the last epoch run
C1_Witness ==
    /\ pc = "cnn_returned" /\ stop_training
    /\ weights < EpochsRun
    /\ ValLoss[EpochsRun] > ModelValLoss

\* C2: the loop tracks the best validation loss, stops at the end of the first
\* epoch that completes patience consecutive non-improving epochs, never
\* before, and an improving epoch resets the count.
C2_EarlyStoppingRule ==
    pc \in {"cnn_fit", "cnn_returned"} =>
        /\ EpochsRun > 0 => es.best = MinSeq(ValLoss)
        /\ es.wait = TrailingRun(ValLoss)
        /\ stop_training <=> RunCompleteAt(ValLoss, EpochsRun)
        /\ \A i \in 1..(EpochsRun - 1) : ~RunCompleteAt(ValLoss, i)

\* stopped after a count that an improving epoch had reset
C2_Witness ==
    /\ stop_training
    /\ EpochsRun > CNN_EARLY_STOPPING_PATIENCE + 3
    /\ \E i \in 3..EpochsRun : ~NonImproving(ValLoss, i) /\ NonImproving(ValLoss, i - 1)
    /\ \E i \in 2..EpochsRun : ValLoss[i] = MinSeq(ValLoss) /\ NonImproving(ValLoss, i)

\* C7: history holds one entry per epoch executed, in epoch order, and only
\* ever grows by appending; restoring the best weights alters no entry.
HistoryComplete ==
    \A k \in DOMAIN history :
        /\ Len(history[k]) = epoch
        /\ \A i \in 1..epoch : history[k][i] = EpochLogs(i, ValLoss[i])[k]

HistoryAppendOnly ==
    \A k \in DOMAIN history :
        \/ history'[k] = history[k]
        \/ /\ Len(history'[k]) = Len(history[k]) + 1
           /\ Prefix(history'[k], Len(history[k])) = history[k]

C7_HistoryLiteral ==
    /\ [](pc \in {"cnn_fit", "cnn_returned"} => HistoryComplete)
    /\ [][pc # "cnn_build" => HistoryAppendOnly]_vars

\* best weights restored, and the epochs after the best one are still recorded
C7_Witness ==
    /\ pc = "cnn_returned" /\ stop_training
    /\ weights + CNN_EARLY_STOPPING_PATIENCE = epoch
    /\ Len(history.loss) = epoch /\ Len(history.val_accuracy) = epoch

\* C8: training terminates: fit returns in every run of the loop, the loop is
\* never stuck, every pass through it completes one more epoch and the epoch
\* count never exceeds CNN_EPOCHS; at the ceiling without early stopping the
\* model and the full history are returned.
C8_Terminates ==
    /\ <>(pc = "cnn_returned")
    /\ [](pc \in {"cnn_fit", "cnn_returned"} =>
            epoch <= CNN_EPOCHS /\ EpochsRun = epoch)
    /\ [](pc = "cnn_fit" => ENABLED CnnEpoch \/ ENABLED CnnReturn)
    /\ [][pc = "cnn_fit" => pc' = "cnn_returned" \/ epoch' = epoch + 1]_vars
    /\ [](pc = "cnn_returned" /\ ~stop_training =>
            EpochsRun = CNN_EPOCHS /\ weights = CNN_EPOCHS)

\* the ceiling was reached without early stopping
C8_Witness ==
    pc = "cnn_returned" /\ ~stop_training /\ EpochsRun = CNN_EPOCHS

----------------------------------------------------------------------------
(* Properties of the classical classifiers and of the pipeline *)

TrainedNames == {models[i].name : i \in DOMAIN models}
ResultNames == {results[i].name : i \in DOMAIN results}
NameOf(step) ==
    CASE step = "svm" -> "SVM" [] step = "dt" -> "Decision Tree"
      [] step = "rf" -> "Random Forest" [] step = "kmeans" -> "K-Means"
StepsBefore(step) ==
    CASE step = "svm" -> {} [] step = "dt" -> {"svm"}
      [] step = "rf" -> {"svm", "dt"} [] step = "kmeans" -> {"svm", "dt", "rf"}
TrainFailed == exc # NoException /\ exc.at \in TrainFunctions

\* C3 as claimed: when one classifier's train step fails, the other three are
\* still trained and evaluated once the run has ended.
C3_FailureIsolated ==
    (TrainFailed /\ ~ENABLED Next) =>
        \A s \in TrainFunctions \ {exc.at} :
            NameOf(s) \in TrainedNames /\ NameOf(s) \in ResultNames

\* C3 as amended: a failure of one classifier's train step propagates out of
\* train_all_models and main; the classifiers after it in the fixed order are
\* never trained, no mapping is returned, nothing is evaluated and the run ends.
C3_FailureAborts ==
    TrainFailed =>
        /\ pc = "raised"
        /\ TrainedNames = {NameOf(s) : s \in StepsBefore(exc.at)}
        /\ results = <<>> /\ eval_i = 0
        /\ ~ENABLED Next

\* the SVM's fit raised in the main pipeline
C3_Witness == TrainFailed /\ exc.at = "svm" /\ entry = "main" /\ pc = "raised"

KMeansEntries == {e \in Range(models) : e.name = "K-Means"}
ClusterRows(km, cid) == {i \in DOMAIN X_train : km.assign[X_train[i]] = cid}
CountIn(km, cid, k) == Cardinality({i \in ClusterRows(km, cid) : y_train[i] = k})
ClassesIn(km, cid) == {y_train[i] : i \in ClusterRows(km, cid)}
TopClasses(km, cid) ==
    {k \in ClassesIn(km, cid) : \A j \in ClassesIn(km, cid) : CountIn(km, cid, k) >= CountIn(km, cid, j)}
FirstRow(km, cid, k) ==
    CHOOSE i \in ClusterRows(km, cid) :
        y_train[i] = k /\ \A j \in ClusterRows(km, cid) : y_train[j] = k => i <= j
Lowest(S) == CHOOSE k \in S : \A j \in S : k <= j

\* C4 as claimed: each cluster maps to its most frequent training class, the
\* lowest class id among those that tie, whatever the order of the rows.
C4_LowestIdOnTies ==
    \A e \in KMeansEntries : \A cid \in DOMAIN e.mapping :
        e.mapping[cid] = Lowest(TopClasses(e.model, cid))

\* C4 as amended: each cluster maps to a most frequent training class of the
\* cluster; among classes that tie, the one whose first training row in the
\* cluster comes earliest in the training order.
C4_FirstSeenOnTies ==
    \A e \in KMeansEntries : \A cid \in DOMAIN e.mapping :
        /\ e.mapping[cid] \in TopClasses(e.model, cid)
        /\ \A k \in TopClasses(e.model, cid) :
              FirstRow(e.model, cid, e.mapping[cid]) <= FirstRow(e.model, cid, k)

\* a cluster whose classes tie and whose label is not the lowest of them
C4_Witness ==
    \E e \in KMeansEntries : \E cid \in DOMAIN e.mapping :
        /\ Cardinality(TopClasses(e.model, cid)) > 1
        /\ e.mapping[cid] # Lowest(TopClasses(e.model, cid))

\* C5: predict_kmeans gives one label per row; a row whose cluster has no entry
\* in cluster_to_label gets the sentinel -1, which is no class id, and every
\* label is a class id in [0,K) or the sentinel.
C5_UnknownSentinel ==
    \A e \in KMeansEntries : \A c \in KMeansPredict(e.model, X_test) :
        LET y_pred == LabelsOfClusters(e.mapping, c) IN
        /\ y_pred \in PredictKMeans(e.model, e.mapping, X_test)
        /\ DOMAIN y_pred = DOMAIN X_test
        /\ (0 - 1) \notin 0..(n_classes - 1)
        /\ \A i \in DOMAIN X_test :
              /\ y_pred[i] \in 0..(n_classes - 1) \cup {0 - 1}
              /\ c[i] \notin DOMAIN e.mapping => y_pred[i] = 0 - 1
              /\ c[i] \in DOMAIN e.mapping => y_pred[i] = e.mapping[c[i]]

\* the K-Means predictions held the sentinel: a test row fell into a cluster
\* without training rows, and the report that followed did not accept the labels
C5_Witness ==
    /\ exc # NoException /\ exc.at = "report" /\ eval_i = 3
    /\ \E e \in KMeansEntries : DOMAIN e.mapping # 0..(n_classes - 1)

\* C6: once train_kmeans has returned, cluster_to_label has an entry exactly for
\* the clusters that hold a training row, every value is a class id occurring
\* in y_train, and no later step (a predict call among them) changes the map.
MappingMatchesTraining ==
    \A e \in KMeansEntries :
        /\ DOMAIN e.mapping = {e.model.assign[x] : x \in Range(X_train)}
        /\ \A cid \in DOMAIN e.mapping :
              e.mapping[cid] \in Range(y_train) /\ e.mapping[cid] \in 0..(n_classes - 1)

C6_MappingBuiltOnce ==
    /\ []MappingMatchesTraining
    /\ [][KMeansEntries # {} => KMeansEntries' = KMeansEntries]_vars

\* predict_kmeans has run on the test rows with a map that lacks a cluster
C6_Witness ==
    /\ eval_i = 4 /\ "K-Means" \in ResultNames
    /\ \E e \in KMeansEntries : DOMAIN e.mapping # 0..(n_classes - 1)

\* C9: after prepare_data no step changes X_train, y_train, X_test or y_test.
C9_DatasetReadOnly == [][pc # "start" => UNCHANGED dataVars]_vars

\* a full run: grid search, the four classifiers, the CNN with augmentation
C9_Witness ==
    /\ pc = "done" /\ args.grid_search /\ ~args.skip_cnn
    /\ Len(results) = 5 /\ epoch > 0
    /\ X_train_cnn = X_train /\ Len(X_train) > 0

Finished == pc \in {"returned", "raised"}
LabelsInRange == \A i \in DOMAIN y_train : y_train[i] \in 0..(n_classes - 1)

\* C10 as claimed: each classical train operation fails, returning no model,
\* when train_features is empty or a label id is outside [0,K).
C10_RejectsBadInput ==
    (Finished /\ (Len(X_train) = 0 \/ ~LabelsInRange)) => pc = "raised" /\ models = <<>>

\* C10 as amended: each classical train operation raises (scikit-learn's
\* ValueError) and returns no model when train_features is empty; label ids
\* are not checked against [0,K): with as many labels as rows, at least
\* n_classes rows and two distinct labels, training returns a model whatever
\* the label ids are.
C10_RejectsEmptyOnly ==
    Finished =>
        /\ Len(X_train) = 0 => pc = "raised" /\ exc.type = "ValueError"
        /\ pc = "raised" <=> models = <<>>
        /\ pc = "raised" <=> exc # NoException
        /\ (/\ Len(X_train) = Len(y_train)
            /\ Len(X_train) >= n_classes
            /\ Cardinality(Range(y_train)) >= 2) => pc = "returned" /\ Len(models) = 1

\* train_kmeans was called with no rows and raised
C10_Witness == pc = "raised" /\ Len(X_train) = 0 /\ entry = "kmeans" /\ models = <<>>

----------------------------------------------------------------------------
(* Properties of compute_metrics *)

MetricsReturned == pc = "returned" /\ entry = "compute_metrics"
Returned == results[1].metrics
FourValues == {Returned.accuracy, Returned.precision, Returned.recall, Returned.f1}

\* a fraction that is a number in [0,1] (0/0 is not)
InUnit(q) == q[2] > 0 /\ 0 <= q[1] /\ q[1] <= q[2]
IsOne(q) == q[2] > 0 /\ q[1] = q[2]
IsNaN(q) == q[1] = 0 /\ q[2] = 0
SameFrac(a, b) == a[2] > 0 /\ b[2] > 0 /\ a[1] * b[2] = b[1] * a[2]

\* the support-weighted precision with the classes nobody predicted left out:
\* sum over the predicted classes k of support(k) * tp(k) / predicted(k), over
\* the number of rows
PrecisionOverPredicted(y_true, y_pred) ==
    LET predicted == {k \in Range(y_true) \cup Range(y_pred) : Count(y_pred, k) > 0}
        term == [k \in predicted |->
                    <<Count(y_true, k) * Cardinality({i \in DOMAIN y_true : y_true[i] = k /\ y_pred[i] = k}),
                      Count(y_pred, k)>>]
        total == SumFrac(term, predicted)
    IN  <<total[1], total[2] * Len(y_true)>>

====
